---- MODULE Spec2Model ----
(***************************************************************************)
(* State-machine model of esp-link/upnp.c: the UPnP IGD control point of   *)
(* esp-link (SSDP discovery, description fetch, SOAP port-mapping          *)
(* requests), driven by the command handlers cmdUPnP* and by the espconn   *)
(* callbacks.  Texts are TLA+ strings; a C index i is a 0-based offset.    *)
(***************************************************************************)
EXTENDS Integers, Sequences, FiniteSets, TLC

(***************************************************************************)
(* Bounds of the model.                                                    *)
(***************************************************************************)
\* UPnPClient structures in use at the same time
MaxClients == 2
\* espconn structures in use at the same time
MaxConns == 2
\* commands that take effect over a run: a cmdUPnPScan not answered from
\* upnp_ready, a cmdUPnPAddPort, cmdUPnPRemovePort or
\* cmdUPnPQueryExternalAddress that starts a request, a cmdUPnPBegin
MaxStarted == 3

(***************************************************************************)
(* C strings.                                                              *)
(***************************************************************************)
\* a char* is NULL or points to a text
NULL == <<>>
Ptr(s) == <<s>>
Deref(p) == p[1]

\* s[i] of a NUL-terminated text; "" stands for the terminating NUL
CharAt(s, i) == IF i >= 0 /\ i < Len(s) THEN SubSeq(s, i + 1, i + 1) ELSE ""

\* the text s+i
From(s, i) == IF i < Len(s) THEN SubSeq(s, i + 1, Len(s)) ELSE ""

\* the text s[i .. j-1]
Slice(s, i, j) == IF j > i THEN SubSeq(s, i + 1, j) ELSE ""

\* least element of a non-empty set of integers
Least(S) == CHOOSE i \in S : \A j \in S : i <= j

UpperCase == "ABCDEFGHIJKLMNOPQRSTUVWXYZ"
LowerCase == "abcdefghijklmnopqrstuvwxyz"
Digits == "0123456789"

\* tolower(c)
ToLower(c) ==
  IF \E k \in 1..26 : SubSeq(UpperCase, k, k) = c
  THEN LET k == CHOOSE k \in 1..26 : SubSeq(UpperCase, k, k) = c
       IN  SubSeq(LowerCase, k, k)
  ELSE c

IsDigit(c) == \E k \in 1..10 : SubSeq(Digits, k, k) = c

DigitVal(c) == (CHOOSE k \in 1..10 : SubSeq(Digits, k, k) = c) - 1

\* os_strncmp(s+i, lit, Len(lit)) == 0
StrNCmpEq(s, i, lit) ==
  /\ i >= 0
  /\ i + Len(lit) <= Len(s)
  /\ SubSeq(s, i + 1, i + Len(lit)) = lit

\* strncasecmp(s+i, lit, Len(lit)) == 0
StrNCaseCmpEq(s, i, lit) ==
  /\ i >= 0
  /\ i + Len(lit) <= Len(s)
  /\ \A k \in 0..(Len(lit) - 1) : ToLower(CharAt(s, i + k)) = ToLower(CharAt(lit, k))

\* value of the decimal digits s[i], s[i+1], ... up to the first non-digit,
\* continuing from the value acc
RECURSIVE DigitsFrom(_, _, _)
DigitsFrom(s, i, acc) ==
  IF IsDigit(CharAt(s, i))
  THEN DigitsFrom(s, i + 1, acc * 10 + DigitVal(CharAt(s, i)))
  ELSE acc

\* index of the first character of s at or after i that is not a blank
RECURSIVE SkipBlanks(_, _)
SkipBlanks(s, i) == IF CharAt(s, i) = " " THEN SkipBlanks(s, i + 1) ELSE i

\* atoi(s): blanks, an optional sign, then decimal digits
Atoi(s) ==
  LET b == SkipBlanks(s, 0)
  IN  IF CharAt(s, b) = "-" THEN 0 - DigitsFrom(s, b + 1, 0)
      ELSE IF CharAt(s, b) = "+" THEN DigitsFrom(s, b + 1, 0)
      ELSE DigitsFrom(s, b, 0)

\* the decimal text of n >= 0 (os_sprintf's %d)
RECURSIVE Itoa(_)
Itoa(n) ==
  IF n < 10 THEN SubSeq(Digits, n + 1, n + 1)
  ELSE Itoa(n \div 10) \o SubSeq(Digits, (n % 10) + 1, (n % 10) + 1)

(***************************************************************************)
(* 32-bit values (ip_addr_t.addr, the value of a command response) are the *)
(* tuple of their four bytes in memory order: ip4_addr1 is the first byte. *)
(***************************************************************************)
IP4(a, b, c, d) == <<a, b, c, d>>
ip4_addr1(ip) == ip[1]
ip4_addr2(ip) == ip[2]
ip4_addr3(ip) == ip[3]
ip4_addr4(ip) == ip[4]

\* the 32-bit values 0 and (uint32_t)-1
U32Zero == <<0, 0, 0, 0>>
U32MinusOne == <<255, 255, 255, 255>>

\* UTILS_StrToIP(s, ip): four decimal numbers below 256, the first three each
\* ended by '.', the fourth by any character; the bytes are stored in order.
\* <<return value # 0, ip>>
RECURSIVE StrToIPFrom(_, _, _, _)
StrToIPFrom(s, pos, i, acc) ==
  IF i = 4 THEN <<TRUE, acc>>
  ELSE LET e == Least({k \in pos..Len(s) : ~IsDigit(CharAt(s, k))})
           n == DigitsFrom(s, pos, 0)
       IN  IF (i < 3 /\ CharAt(s, e) # ".") \/ n >= 256
           THEN <<FALSE, U32Zero>>
           ELSE StrToIPFrom(s, e + 1, i + 1, [acc EXCEPT ![i + 1] = n])

UTILS_StrToIP(s) == StrToIPFrom(s, 0, 0, U32Zero)

(***************************************************************************)
(* Protocol constants and templates.                                       *)
(***************************************************************************)
counter_max == 4

\* the most espconn_send is given on connect
ChunkMax == 1400

upnp_general_query ==
  "GET %s HTTP/1.0\r\nHost: %s\r\nConnection: close\r\nUser-Agent: esp-link\r\n\r\n"

upnp_query_external_address ==
  "POST %s HTTP/1.0\r\nHost: %s\r\nUser-Agent: esp-link\r\nContent-Length : %d\r\nContent-Type: text/xml\r\nSOAPAction: \"urn:schemas-upnp-org:service:WANPPPConnection:1#GetExternalIPAddress\"\r\nConnection: Close\r\nCache-Control: no-cache\r\nPragma: no-cache\r\n\r\n%s"

upnp_query_external_address_xml ==
  "<?xml version=\"1.0\"?>\r\n<s:Envelope xmlns:s=\"http://schemas.xmlsoap.org/soap/envelope/\" s:encodingStyle=\"http://schemas.xmlsoap.org/soap/encoding/\">\r\n<s:Body>\r\n<u:GetExternalIPAddress xmlns:u=\"urn:schemas-upnp-org:service:WANPPPConnection:1\">\r\n</u:GetExternalIPAddress>\r\n</s:Body>\r\n</s:Envelope>\r\n"

upnp_query_add_tmpl ==
  "POST %s HTTP/1.0\r\nHost: %s\r\nUser-Agent: esp-link\r\nContent-Length: %d\r\nContent-Type: text/xml\r\nSOAPAction: \"urn:schemas-upnp-org:service:WANPPPConnection:1#AddPortMapping\"\r\nConnection: Close\r\nCache-Control: no-cache\r\nPragma: no-cache\r\n\r\n%s"

upnp_query_add_xml ==
  "<?xml version=\"1.0\"?>\r\n<s:Envelope xmlns:s=\"http://schemas.xmlsoap.org/soap/envelope/\" s:encodingStyle=\"http://schemas.xmlsoap.org/soap/encoding/\">\r\n<s:Body>\r\n<u:AddPortMapping xmlns:u=\"urn:schemas-upnp-org:service:WANPPPConnection:1\">\r\n<NewRemoteHost></NewRemoteHost>\r\n<NewExternalPort>%d</NewExternalPort>\r\n<NewProtocol>TCP</NewProtocol>\r\n<NewInternalPort>%d</NewInternalPort>\r\n<NewInternalClient>%d.%d.%d.%d</NewInternalClient>\r\n<NewEnabled>1</NewEnabled>\r\n<NewPortMappingDescription>libminiupnpc</NewPortMappingDescription>\r\n<NewLeaseDuration>0</NewLeaseDuration>\r\n</u:AddPortMapping>\r\n</s:Body>\r\n</s:Envelope>\r\n"

upnp_query_remove_tmpl ==
  "POST %s HTTP/1.0\r\nHost: %s\r\nUser-Agent: esp-link\r\nContent-Length: %d\r\nContent-Type: text/xml\r\nSOAPAction: \"urn:schemas-upnp-org:service:WANPPPConnection:1#DeletePortMapping\"\r\nConnection: Close\r\nCache-Control: no-cache\r\nPragma: no-cache\r\n"

upnp_query_remove_xml ==
  "<?xml version=\"1.0\"?>\r\n<s:Envelope xmlns:s=\"http://schemas.xmlsoap.org/soap/envelope/\"\r\n    s:encodingStyle=\"http://schemas.xmlsoap.org/soap/encoding/\">\r\n  <s:Body>\r\n    <u:DeletePortMapping xmlns:u=\"urn:schemas-upnp-org:service:WANPPPConnection:1\">\r\n    <NewRemoteHost>\r\n    </NewRemoteHost>\r\n    <NewExternalPort>%d</NewExternalPort>\r\n    <NewProtocol>TCP</NewProtocol>\r\n  </u:DeletePortMapping>\r\n  </s:Body>\r\n</s:Envelope>\r\n"

\* the format strings given to os_sprintf
Templates ==
  {upnp_general_query, upnp_query_external_address, upnp_query_add_tmpl,
   upnp_query_add_xml, upnp_query_remove_tmpl, upnp_query_remove_xml}

\* the offsets of the %s and %d directives of a format string
Directives(fmt) ==
  {i \in 0..(Len(fmt) - 2) : CharAt(fmt, i) = "%" /\ CharAt(fmt, i + 1) \in {"s", "d"}}

\* the texts of a format string from offset i on, cut at its directives
RECURSIVE Pieces(_, _)
Pieces(fmt, i) ==
  LET rest == {k \in Directives(fmt) : k >= i}
  IN  IF rest = {} THEN <<From(fmt, i)>>
      ELSE <<Slice(fmt, i, Least(rest))>> \o Pieces(fmt, Least(rest) + 2)

\* the pieces of each format string (cut once)
TemplatePieces == [fmt \in Templates |-> Pieces(fmt, 0)]

\* the pieces p with the arguments between them; a directive without an
\* argument is not among the uses of os_sprintf here
RECURSIVE Fill(_, _)
Fill(p, args) ==
  IF Len(p) = 1 \/ args = <<>> THEN Head(p)
  ELSE Head(p) \o Head(args) \o Fill(Tail(p), Tail(args))

\* os_sprintf(fmt, args...): each %s or %d of fmt replaced by the next
\* argument's text (a number is passed as its decimal text); arguments left
\* over are ignored
Sprintf(fmt, args) == Fill(TemplatePieces[fmt], args)

(***************************************************************************)
(* Pure parts of the callbacks.                                            *)
(***************************************************************************)
\* a variant of LocationOffsets that looks for the header in lower case
LocationOffsets_LowerCase(pusrdata) ==
  {i \in 0..(Len(pusrdata) - 21) :
     /\ CharAt(pusrdata, i) = "\r"
     /\ CharAt(pusrdata, i + 1) = "\n"
     /\ StrNCmpEq(pusrdata, i + 2, "location:")}

\* ssdp_recv_cb: the offsets i < length-20 at which CR LF "LOCATION:" starts
LocationOffsets(pusrdata) ==
  {i \in 0..(Len(pusrdata) - 21) :
     /\ CharAt(pusrdata, i) = "\r"
     /\ CharAt(pusrdata, i + 1) = "\n"
     /\ StrNCmpEq(pusrdata, i + 2, "LOCATION:")}

\* ssdp_recv_cb: the text handed to upnp_analyze_location, from j = i+11 to
\* the first CR or NUL at k
LocationValue(pusrdata) ==
  LET i == Least(LocationOffsets(pusrdata))
      j == i + 11
      k == Least({k \in j..Len(pusrdata) : CharAt(pusrdata, k) \in {"", "\r"}})
  IN  Slice(pusrdata, j, k)

\* upnp_analyze_location: the fields it sets, for a text of at least 7
\* characters
upnp_analyze_location(orig_loc) ==
  LET location == orig_loc
      colons == {i \in 7..(Len(location) - 1) : CharAt(location, i) = ":"}
      p == IF colons # {} THEN Least(colons) + 1 ELSE 0
      \* i when the first loop ends: at the ':' or at the end of the text
      i1 == IF colons # {} THEN Least(colons) ELSE Len(location)
      slashes == {i \in i1..(Len(location) - 1) : CharAt(location, i) = "/"}
      q == IF slashes # {} THEN Least(slashes) ELSE 0
  IN  [location |-> location,
       control_port |-> IF p # 0 THEN Atoi(From(location, p)) % 65536 ELSE 80,
       path |-> IF slashes # {} THEN From(location, q) ELSE "",
       host |-> IF q # 0 THEN Slice(location, 7, q) ELSE From(location, 7)]

\* upnp_tcp_recv_cb in upnp_found_igd: the offsets of a segment at which one
\* of the four markers the loop tests for starts
MarkerOffsets(pdata) ==
  {i \in 0..(Len(pdata) - 1) :
     \/ StrNCaseCmpEq(pdata, i, "<service>")
     \/ StrNCaseCmpEq(pdata, i, "</service>")
     \/ StrNCaseCmpEq(pdata, i, "urn:upnp-org:serviceId:WANPPPConn1")
     \/ StrNCaseCmpEq(pdata, i, "<controlURL>")}

\* upnp_tcp_recv_cb in upnp_found_igd: the loop over one segment from offset i
\* on (offsets without a marker change nothing and are skipped; markers are
\* the segment's MarkerOffsets), with the nesting counter inservice, the depth
\* get_this at which the service id was seen (-1: none) and the control URL
\* stored so far
RECURSIVE ServiceScan(_, _, _, _, _, _)
ServiceScan(pdata, markers, i, inservice, get_this, url) ==
  LET rest == {k \in markers : k >= i}
      k == Least(rest)
  IN  IF rest = {} THEN url
      ELSE IF StrNCaseCmpEq(pdata, k, "<service>")
           THEN ServiceScan(pdata, markers, k + 1, inservice + 1, get_this, url)
      ELSE IF StrNCaseCmpEq(pdata, k, "</service>")
           THEN ServiceScan(pdata, markers, k + 1, inservice - 1, get_this, url)
      ELSE IF StrNCaseCmpEq(pdata, k, "urn:upnp-org:serviceId:WANPPPConn1")
           THEN ServiceScan(pdata, markers, k + 1, inservice, inservice, url)
      ELSE IF get_this = inservice /\ StrNCaseCmpEq(pdata, k, "<controlURL>")
           THEN LET j == Least({j \in (k + 12)..Len(pdata) : CharAt(pdata, j) \in {"", "<"}})
                IN  ServiceScan(pdata, markers, k + 1, inservice, -1,
                                Ptr(Slice(pdata, k + 12, j)))
      ELSE ServiceScan(pdata, markers, k + 1, inservice, get_this, url)

\* the control URL one segment yields, NULL if none
ControlUrlOf(pdata) == ServiceScan(pdata, MarkerOffsets(pdata), 0, 0, -1, NULL)

\* upnp_tcp_recv_cb in upnp_query_extaddress: the segment holds the open tag
HasExternalTag(pdata) ==
  \E i \in 0..(Len(pdata) - 1) : StrNCaseCmpEq(pdata, i, "<NewExternalIPAddress>")

(***************************************************************************)
(* Inputs: what the command channel and the network deliver.               *)
(***************************************************************************)
\* SSDP replies: a numeric LOCATION with port and path, a LOCATION that is a
\* name without port and path, and a reply without LOCATION
SsdpNumeric == "HTTP/1.1 200 OK\r\nLOCATION:http://192.168.1.1:8000/desc.xml\r\nST: upnp:rootdevice\r\n\r\n"
SsdpNamed == "HTTP/1.1 200 OK\r\nLOCATION:http://gateway\r\nST: upnp:rootdevice\r\n\r\n"
SsdpOther == "HTTP/1.1 200 OK\r\nST: upnp:rootdevice\r\nEXT:\r\n\r\n"
SsdpDatagrams == {SsdpNumeric, SsdpNamed, SsdpOther}

\* TCP segments: a description naming the target service, a description of
\* another service, the reply to the external-address query, a plain reply
DescTarget == "<service><serviceId>urn:upnp-org:serviceId:WANPPPConn1</serviceId><controlURL>/ctl</controlURL></service>"
DescOther == "<service><serviceId>urn:upnp-org:serviceId:WANIPConn1</serviceId><controlURL>/ip</controlURL></service>"
ExtReply == "<NewExternalIPAddress>213.49.166.224</NewExternalIPAddress>"
PlainReply == "HTTP/1.0 200 OK\r\n\r\n"
TcpSegments == {DescTarget, DescOther, ExtReply, PlainReply}

\* what the scans make of each input (the scans above, evaluated once)
SsdpLocation ==
  [d \in SsdpDatagrams |->
     IF LocationOffsets(d) = {} THEN NULL
     ELSE Ptr(upnp_analyze_location(LocationValue(d)))]
SegmentUrl == [d \in TcpSegments |-> ControlUrlOf(d)]
SegmentTag == [d \in TcpSegments |-> HasExternalTag(d)]

\* what the resolver hands to upnp_dns_found: no address (NULL), the address
\* of the name, or the address 0
DnsAddress == IP4(192, 168, 1, 1)
DnsAnswers == {NULL, Ptr(DnsAddress), Ptr(U32Zero)}

\* arguments of cmdUPnPAddPort and cmdUPnPRemovePort
LocalIps == {IP4(192, 168, 1, 176)}
LocalPorts == {80}
RemotePorts == {9876}

\* os_zalloc in cmdUPnPScan: both allocations succeed, the espconn fails, or
\* the esp_udp fails
ScanAllocs == {"ok", "no_con", "no_udp"}


(***************************************************************************)
(* State.                                                                  *)
(***************************************************************************)
VARIABLES
  upnp_state,     \* enum upnp_state_t
  the_client,     \* UPnPClient *the_client: 0 (NULL) or an index into clients
  clients,        \* the UPnPClient structures, by address
  conns,          \* the espconn structures, by address; st = "FREE": none there
  control_url,    \* static char *control_url
  counter,        \* static int counter
  crashed,        \* a handler read through a NULL pointer: the load from
                  \* address 0 raises an exception and the chip resets
  transmissions,  \* ssdp_message datagrams handed to espconn_sent since the
                  \* last cmdUPnPScan that was not answered from upnp_ready
  started,        \* the number of commands that took effect so far
  last            \* the last command or callback: its name, its espconn, the
                  \* upnp_state it found, its argument text, its response

vars == <<upnp_state, the_client, clients, conns, control_url, counter, crashed,
          transmissions, started, last>>

States == {"upnp_none", "upnp_multicasted", "upnp_found_igd", "upnp_ready",
           "upnp_adding_port", "upnp_removing_port", "upnp_query_extaddress"}

\* os_zalloc(sizeof(UPnPClient)); data is NULL or the request buffer's text
ZeroClient ==
  [host |-> NULL, path |-> NULL, location |-> NULL, control_url |-> NULL,
   control_port |-> 0, external_address |-> U32Zero,
   port |-> 0, remote_port |-> 0, ip |-> U32Zero, remote_ip |-> U32Zero,
   con |-> 0, data |-> NULL, data_len |-> 0, data_sent |-> 0]

\* an espconn: its type, its reverse pointer, where the transport stands with
\* it, the send completions it still owes, and its remote address and port
NewConn(type, reverse, st, ip, port) ==
  [type |-> type, reverse |-> reverse, st |-> st, pending |-> 0,
   remote_ip |-> ip, remote_port |-> port]

\* no espconn at this address (never allocated, or deleted and freed)
NoConn == NewConn("NONE", 0, "FREE", U32Zero, 0)

ClientIds == 1..MaxClients
ConnIds == 1..MaxConns

FreeConns(cns) == {i \in ConnIds : cns[i].st = "FREE"}

\* The UPnPClient structures the program can still reach: the_client and the
\* reverse pointers of the espconns that can still call back.
LiveClients(tc, cns) ==
  ({tc} \cup {cns[c].reverse : c \in {k \in ConnIds : cns[k].st \notin {"FREE", "IDLE"}}})
    \ {0}

FreeClients(tc, cns) == ClientIds \ LiveClients(tc, cns)

\* The heap after a handler that leaves the_client tc, the clients cls and the
\* connections cns.  Nothing frees a UPnPClient or an espconn that failed; one
\* that nothing refers to any more can be neither read nor written again, and
\* its address stands for that of the next structure allocated.
Heap(tc, cls, cns) ==
  LET live == LiveClients(tc, cns)
      held == {cls[i].con : i \in live}
  IN  /\ the_client' = tc
      /\ clients' = [i \in ClientIds |-> IF i \in live THEN cls[i] ELSE ZeroClient]
      /\ conns' = [c \in ConnIds |->
                     IF cns[c].st = "IDLE" /\ c \notin held THEN NoConn ELSE cns[c]]

\* one more command takes effect
TakesEffect == started < MaxStarted /\ started' = started + 1

Step(op, con, arg, resp) ==
  [op |-> op, con |-> con, from |-> upnp_state, arg |-> arg, resp |-> resp]

Init ==
  /\ upnp_state = "upnp_none"
  /\ the_client = 0
  /\ clients = [i \in ClientIds |-> ZeroClient]
  /\ conns = [i \in ConnIds |-> NoConn]
  /\ control_url = NULL
  /\ counter = 0
  /\ crashed = FALSE
  /\ transmissions = 0
  /\ started = 0
  /\ last = [op |-> "init", con |-> 0, from |-> "upnp_none", arg |-> "", resp |-> <<>>]

(***************************************************************************)
(* upnp_query_igd and upnp_cleanup_conn.                                   *)
(***************************************************************************)
\* the text a char* that is not NULL points to
TextOf(ptr) == Deref(ptr)

\* upnp_query_igd: the request built in state st for client c (tc is
\* *the_client)
QueryText(st, c, tc) ==
  CASE st = "upnp_found_igd" ->
         Sprintf(upnp_general_query, <<TextOf(c.path), TextOf(c.location)>>)
    [] st = "upnp_adding_port" ->
         LET xml == Sprintf(upnp_query_add_xml,
                      <<Itoa(c.remote_port), Itoa(c.port),
                        Itoa(ip4_addr4(c.ip)), Itoa(ip4_addr3(c.ip)),
                        Itoa(ip4_addr2(c.ip)), Itoa(ip4_addr1(c.ip))>>)
         IN  Sprintf(upnp_query_add_tmpl,
               <<TextOf(c.control_url), TextOf(c.host), Itoa(Len(xml)), xml>>)
    [] st = "upnp_removing_port" ->
         LET xml == Sprintf(upnp_query_remove_xml, <<Itoa(c.remote_port)>>)
         IN  Sprintf(upnp_query_remove_tmpl,
               <<TextOf(c.control_url), TextOf(c.host), Itoa(Len(xml)), xml>>)
    [] st = "upnp_query_extaddress" ->
         Sprintf(upnp_query_external_address,
           <<TextOf(tc.control_url), TextOf(tc.host),
             Itoa(Len(upnp_query_external_address_xml)),
             upnp_query_external_address_xml>>)

\* upnp_query_igd: the char* it reads in state st are not all set
ReadsNull(st, c, tc) ==
  CASE st = "upnp_found_igd" -> c.path = NULL \/ c.location = NULL
    [] st \in {"upnp_adding_port", "upnp_removing_port"} ->
         c.control_url = NULL \/ c.host = NULL
    [] st = "upnp_query_extaddress" -> tc.control_url = NULL \/ tc.host = NULL
    [] OTHER -> FALSE

\* upnp_query_igd(client) called in state st with the clients cls and the
\* connections cns: a new espconn, the request buffer, then espconn_connect for
\* a numeric host and espconn_gethostbyname otherwise.  The new values of
\* clients, conns and crashed, and the new espconn.
upnp_query_igd(cl, st, cls, cns) ==
  LET n == Least(FreeConns(cns))
      c == cls[cl]
      tc == IF the_client = 0 THEN c ELSE cls[the_client]
      idle == NewConn("TCP", cl, "IDLE", U32Zero, c.control_port)
      withCon == [cls EXCEPT ![cl].con = n]
  IN  IF st \notin {"upnp_found_igd", "upnp_adding_port", "upnp_removing_port",
                    "upnp_query_extaddress"}
      THEN [clients |-> withCon, conns |-> [cns EXCEPT ![n] = idle],
            crashed |-> FALSE, con |-> n]
      ELSE IF ReadsNull(st, c, tc)
      THEN [clients |-> withCon, conns |-> [cns EXCEPT ![n] = idle],
            crashed |-> TRUE, con |-> n]
      ELSE LET query == QueryText(st, c, tc)
               ip == UTILS_StrToIP(TextOf(c.host))
           IN  [clients |->
                  [withCon EXCEPT ![cl].data = Ptr(query),
                                  ![cl].data_len = Len(query) % 65536,
                                  ![cl].remote_ip = IF ip[1] THEN ip[2] ELSE @],
                conns |->
                  [cns EXCEPT ![n] =
                     IF ip[1]
                     THEN NewConn("TCP", cl, "CONNECTING", ip[2], c.control_port)
                     ELSE NewConn("TCP", cl, "RESOLVING", U32Zero, c.control_port)],
                crashed |-> FALSE,
                con |-> n]

\* upnp_cleanup_conn(client): espconn_delete and os_free of client->con
upnp_cleanup_conn(cl, cls, cns) ==
  [clients |-> [cls EXCEPT ![cl].con = 0],
   conns |-> IF cls[cl].con = 0 THEN cns
             ELSE [cns EXCEPT ![cls[cl].con] = NoConn]]

(***************************************************************************)
(* Command handlers.                                                       *)
(***************************************************************************)
\* a variant of AlreadyReady that takes every state but upnp_none for done
AlreadyReady_OrBusy == upnp_state # "upnp_none"

\* cmdUPnPScan: the test that answers at once, without a new discovery
AlreadyReady == upnp_state = "upnp_ready"

\* cmdUPnPScan
cmdUPnPScan(alloc) ==
  /\ ~crashed
  /\ IF AlreadyReady
     THEN /\ last' = Step("cmdUPnPScan", 0, "",
                       <<IF the_client = 0 THEN U32Zero
                         ELSE clients[the_client].remote_ip>>)
          /\ UNCHANGED <<upnp_state, the_client, clients, conns, control_url,
                         counter, crashed, transmissions, started>>
     ELSE IF alloc = "no_con"
     THEN /\ upnp_state' = "upnp_none"
          /\ transmissions' = 0
          /\ TakesEffect
          /\ last' = Step("cmdUPnPScan", 0, alloc, <<U32Zero>>)
          /\ UNCHANGED <<the_client, clients, conns, control_url, counter, crashed>>
     ELSE IF alloc = "no_udp"
     THEN /\ upnp_state' = "upnp_none"
          /\ counter' = 0
          /\ transmissions' = 0
          /\ TakesEffect
          /\ last' = Step("cmdUPnPScan", 0, alloc, <<U32Zero>>)
          /\ UNCHANGED <<the_client, clients, conns, control_url, crashed>>
     ELSE /\ FreeClients(0, conns) # {}
          /\ FreeConns(conns) # {}
          /\ LET con == Least(FreeConns(conns))
                 client == Least(FreeClients(0, conns))
             IN  /\ Heap(client,
                         [clients EXCEPT ![client] = [ZeroClient EXCEPT !.con = con]],
                         [conns EXCEPT ![con] =
                            [NewConn("UDP", client, "OPEN", IP4(239, 255, 255, 250), 1900)
                               EXCEPT !.pending = 1]])
                 /\ last' = Step("cmdUPnPScan", con, alloc, <<U32Zero>>)
          /\ counter' = 0
          /\ transmissions' = 1
          /\ TakesEffect
          /\ upnp_state' = "upnp_multicasted"
          /\ UNCHANGED <<control_url, crashed>>

\* a variant of NotReady without the test of upnp_state
NotReady_AnyState ==
  \/ the_client = 0
  \/ clients[the_client].remote_ip = U32Zero

\* a variant of NotReady that takes upnp_adding_port for ready too
NotReady_WhileAdding ==
  \/ the_client = 0
  \/ clients[the_client].remote_ip = U32Zero
  \/ upnp_state \notin {"upnp_ready", "upnp_adding_port"}

\* the readiness test of cmdUPnPAddPort and cmdUPnPRemovePort
NotReady ==
  \/ the_client = 0
  \/ clients[the_client].remote_ip = U32Zero
  \/ upnp_state # "upnp_ready"

\* cmdUPnPAddPort; parsed: the request holds the three arguments
cmdUPnPAddPort(parsed, ip, local_port, remote_port) ==
  /\ ~crashed
  /\ IF ~parsed
     THEN /\ last' = Step("cmdUPnPAddPort", 0, "malformed", <<>>)
          /\ UNCHANGED <<upnp_state, the_client, clients, conns, control_url,
                         counter, crashed, transmissions, started>>
     ELSE IF NotReady
     THEN /\ last' = Step("cmdUPnPAddPort", 0, "", <<U32MinusOne>>)
          /\ UNCHANGED <<upnp_state, the_client, clients, conns, control_url,
                         counter, crashed, transmissions, started>>
     ELSE /\ FreeConns(conns) # {}
          /\ LET r == upnp_query_igd(the_client, "upnp_adding_port",
                        [clients EXCEPT ![the_client].ip = ip,
                                        ![the_client].port = local_port,
                                        ![the_client].remote_port = remote_port],
                        conns)
             IN  /\ Heap(the_client, r.clients, r.conns)
                 /\ crashed' = r.crashed
                 /\ last' = Step("cmdUPnPAddPort", r.con, "",
                              IF r.crashed THEN <<>> ELSE <<U32Zero>>)
          /\ upnp_state' = "upnp_adding_port"
          /\ TakesEffect
          /\ UNCHANGED <<control_url, counter, transmissions>>

\* cmdUPnPRemovePort; parsed: the request holds the argument
cmdUPnPRemovePort(parsed, remote_port) ==
  /\ ~crashed
  /\ IF ~parsed
     THEN /\ last' = Step("cmdUPnPRemovePort", 0, "malformed", <<>>)
          /\ UNCHANGED <<upnp_state, the_client, clients, conns, control_url,
                         counter, crashed, transmissions, started>>
     ELSE IF NotReady
     THEN /\ last' = Step("cmdUPnPRemovePort", 0, "", <<U32MinusOne>>)
          /\ UNCHANGED <<upnp_state, the_client, clients, conns, control_url,
                         counter, crashed, transmissions, started>>
     ELSE /\ FreeConns(conns) # {}
          /\ LET r == upnp_query_igd(the_client, "upnp_removing_port",
                        [clients EXCEPT ![the_client].remote_port = remote_port],
                        conns)
             IN  /\ Heap(the_client, r.clients, r.conns)
                 /\ crashed' = r.crashed
                 /\ last' = Step("cmdUPnPRemovePort", r.con, "",
                              IF r.crashed THEN <<>> ELSE <<U32Zero>>)
          /\ upnp_state' = "upnp_removing_port"
          /\ TakesEffect
          /\ UNCHANGED <<control_url, counter, transmissions>>

\* cmdUPnPQueryExternalAddress
cmdUPnPQueryExternalAddress ==
  /\ ~crashed
  /\ IF the_client = 0 \/ clients[the_client].remote_ip = U32Zero
     THEN /\ last' = Step("cmdUPnPQueryExternalAddress", 0, "", <<U32MinusOne>>)
          /\ UNCHANGED <<upnp_state, the_client, clients, conns, control_url,
                         counter, crashed, transmissions, started>>
     ELSE IF upnp_state = "upnp_query_extaddress"
     THEN /\ upnp_state' = IF clients[the_client].external_address # U32Zero
                           THEN "upnp_ready" ELSE upnp_state
          /\ last' = Step("cmdUPnPQueryExternalAddress", 0, "",
                       <<clients[the_client].external_address>>)
          /\ UNCHANGED <<the_client, clients, conns, control_url, counter,
                         crashed, transmissions, started>>
     ELSE IF upnp_state = "upnp_ready"
     THEN /\ FreeConns(conns) # {}
          /\ LET r == upnp_query_igd(the_client, "upnp_query_extaddress",
                        clients, conns)
             IN  /\ Heap(the_client, r.clients, r.conns)
                 /\ crashed' = r.crashed
                 /\ last' = Step("cmdUPnPQueryExternalAddress", r.con, "",
                              IF r.crashed THEN <<>> ELSE <<U32Zero>>)
          /\ upnp_state' = "upnp_query_extaddress"
          /\ TakesEffect
          /\ UNCHANGED <<control_url, counter, transmissions>>
     ELSE /\ last' = Step("cmdUPnPQueryExternalAddress", 0, "", <<U32MinusOne>>)
          /\ UNCHANGED <<upnp_state, the_client, clients, conns, control_url,
                         counter, crashed, transmissions, started>>

\* a variant of cmdUPnPBegin that keeps the session
cmdUPnPBegin_KeepsSession ==
  /\ ~crashed
  /\ upnp_state' = "upnp_none"
  /\ last' = Step("cmdUPnPBegin", 0, "", <<>>)
  /\ TakesEffect
  /\ UNCHANGED <<the_client, clients, conns, control_url, counter, crashed,
                 transmissions>>

\* cmdUPnPBegin
cmdUPnPBegin ==
  /\ ~crashed
  /\ Heap(0, clients, conns)
  /\ upnp_state' = "upnp_none"
  /\ last' = Step("cmdUPnPBegin", 0, "", <<>>)
  /\ TakesEffect
  /\ UNCHANGED <<control_url, counter, crashed, transmissions>>

(***************************************************************************)
(* espconn callbacks.  The transport calls a connection's callbacks only   *)
(* while the espconn exists: received data at any time, one send           *)
(* completion per accepted send, the resolver's answer once, connect once, *)
(* and disconnect or reconnect (error) at the end.                         *)
(***************************************************************************)
\* a variant of ssdp_recv_cb that uses a LOCATION in every state
ssdp_recv_cb_AnyState(con, pusrdata) ==
  /\ ~crashed
  /\ conns[con].type = "UDP"
  /\ conns[con].st = "OPEN"
  /\ last' = Step("ssdp_recv_cb", con, pusrdata, <<>>)
  /\ IF SsdpLocation[pusrdata] # NULL
     THEN /\ LET client == conns[con].reverse
                 a == Deref(SsdpLocation[pusrdata])
                 analyzed == [clients EXCEPT ![client].location = Ptr(a.location),
                                             ![client].control_port = a.control_port,
                                             ![client].path = Ptr(a.path),
                                             ![client].host = Ptr(a.host)]
                 cleaned == upnp_cleanup_conn(client, analyzed, conns)
                 r == upnp_query_igd(client, "upnp_found_igd", cleaned.clients,
                                     cleaned.conns)
             IN  /\ Heap(the_client, r.clients, r.conns)
                 /\ crashed' = r.crashed
          /\ upnp_state' = "upnp_found_igd"
          /\ UNCHANGED <<control_url, counter, transmissions, started>>
     ELSE UNCHANGED <<upnp_state, the_client, clients, conns, control_url,
                      counter, crashed, transmissions, started>>

\* ssdp_recv_cb(con, pusrdata, length)
ssdp_recv_cb(con, pusrdata) ==
  /\ ~crashed
  /\ conns[con].type = "UDP"
  /\ conns[con].st = "OPEN"
  /\ last' = Step("ssdp_recv_cb", con, pusrdata, <<>>)
  /\ IF upnp_state = "upnp_multicasted" /\ SsdpLocation[pusrdata] # NULL
     THEN /\ LET client == conns[con].reverse
                 a == Deref(SsdpLocation[pusrdata])
                 analyzed == [clients EXCEPT ![client].location = Ptr(a.location),
                                             ![client].control_port = a.control_port,
                                             ![client].path = Ptr(a.path),
                                             ![client].host = Ptr(a.host)]
                 cleaned == upnp_cleanup_conn(client, analyzed, conns)
                 r == upnp_query_igd(client, "upnp_found_igd", cleaned.clients,
                                     cleaned.conns)
             IN  /\ Heap(the_client, r.clients, r.conns)
                 /\ crashed' = r.crashed
          /\ upnp_state' = "upnp_found_igd"
          /\ UNCHANGED <<control_url, counter, transmissions, started>>
     ELSE UNCHANGED <<upnp_state, the_client, clients, conns, control_url,
                      counter, crashed, transmissions, started>>

\* a variant of Retransmit that allows one more
Retransmit_OneMore == upnp_state = "upnp_multicasted" /\ counter <= counter_max

\* ssdp_sent_cb: the test that sends ssdp_message again
Retransmit == upnp_state = "upnp_multicasted" /\ counter < counter_max

\* ssdp_sent_cb(con)
ssdp_sent_cb(con) ==
  /\ ~crashed
  /\ conns[con].type = "UDP"
  /\ conns[con].st = "OPEN"
  /\ conns[con].pending > 0
  /\ last' = Step("ssdp_sent_cb", con, "", <<>>)
  /\ IF Retransmit
     THEN /\ counter' = counter + 1
          /\ transmissions' = transmissions + 1
          /\ UNCHANGED <<conns, started>>
     ELSE /\ conns' = [conns EXCEPT ![con].pending = @ - 1]
          /\ UNCHANGED <<counter, transmissions, started>>
  /\ UNCHANGED <<upnp_state, the_client, clients, control_url, crashed>>

\* upnp_dns_found(name, ipaddr, con)
upnp_dns_found(con, ipaddr) ==
  /\ ~crashed
  /\ conns[con].type = "TCP"
  /\ conns[con].st = "RESOLVING"
  /\ last' = Step("upnp_dns_found", con, "", <<>>)
  /\ LET client == conns[con].reverse
         target == clients[client].con
         answered == [conns EXCEPT ![con].st = "IDLE"]
     IN  IF ipaddr = NULL
         THEN Heap(the_client, clients, answered) /\ UNCHANGED crashed
         ELSE IF clients[client].remote_ip = U32Zero /\ Deref(ipaddr) # U32Zero
         THEN IF target = 0
              THEN Heap(the_client, clients, answered) /\ crashed' = TRUE
              ELSE /\ Heap(the_client, clients,
                           [answered EXCEPT
                              ![target].remote_ip = Deref(ipaddr),
                              ![target].st = IF @ = "IDLE" THEN "CONNECTING" ELSE @])
                   /\ UNCHANGED crashed
         ELSE Heap(the_client, clients, answered) /\ UNCHANGED crashed
  /\ UNCHANGED <<upnp_state, control_url, counter, transmissions, started>>

\* upnp_tcp_connect_cb(con)
upnp_tcp_connect_cb(con) ==
  /\ ~crashed
  /\ conns[con].type = "TCP"
  /\ conns[con].st = "CONNECTING"
  /\ last' = Step("upnp_tcp_connect_cb", con, "", <<>>)
  /\ LET client == conns[con].reverse
         data_sent == IF clients[client].data_len <= ChunkMax
                      THEN clients[client].data_len ELSE ChunkMax
         \* espconn_send refuses a NULL buffer and a length of 0
         accepted == clients[client].data # NULL /\ data_sent > 0
     IN  /\ clients' = [clients EXCEPT ![client].data_sent = data_sent]
         /\ conns' = [conns EXCEPT ![con].st = "CONNECTED",
                                   ![con].pending = IF accepted THEN @ + 1 ELSE @]
  /\ UNCHANGED <<upnp_state, the_client, control_url, counter, crashed,
                 transmissions, started>>

\* upnp_tcp_sent_cb(con)
upnp_tcp_sent_cb(con) ==
  /\ ~crashed
  /\ conns[con].type = "TCP"
  /\ conns[con].st = "CONNECTED"
  /\ conns[con].pending > 0
  /\ last' = Step("upnp_tcp_sent_cb", con, "", <<>>)
  /\ LET client == conns[con].reverse
         c == clients[client]
         done == [conns EXCEPT ![con].pending = @ - 1]
         \* espconn_send(client->con, ...) is accepted on a connected espconn
         \* and a buffer that is not NULL
         accepted == /\ c.con # 0
                     /\ conns[c.con].st = "CONNECTED"
                     /\ c.data # NULL
     IN  IF c.data_sent # c.data_len
         THEN /\ conns' = IF accepted THEN [done EXCEPT ![c.con].pending = @ + 1]
                          ELSE done
              /\ clients' = [clients EXCEPT ![client].data_sent = c.data_len]
         ELSE /\ conns' = done
              /\ clients' = [clients EXCEPT ![client].data = NULL]
  /\ UNCHANGED <<upnp_state, the_client, control_url, counter, crashed, transmissions, started>>

\* a variant of upnp_tcp_recv_cb that stores a control URL in every state
upnp_tcp_recv_cb_AnyState(con, pdata) ==
  /\ ~crashed
  /\ conns[con].type = "TCP"
  /\ conns[con].st = "CONNECTED"
  /\ last' = Step("upnp_tcp_recv_cb", con, pdata, <<>>)
  /\ LET client == conns[con].reverse
         url == SegmentUrl[pdata]
     IN  IF url # NULL
         THEN /\ control_url' = url
              /\ clients' = [clients EXCEPT ![client].control_url = url]
         ELSE UNCHANGED <<clients, control_url>>
  /\ UNCHANGED <<upnp_state, the_client, conns, counter, crashed, transmissions, started>>

\* upnp_tcp_recv_cb(con, pdata, len)
upnp_tcp_recv_cb(con, pdata) ==
  /\ ~crashed
  /\ conns[con].type = "TCP"
  /\ conns[con].st = "CONNECTED"
  /\ last' = Step("upnp_tcp_recv_cb", con, pdata, <<>>)
  /\ LET client == conns[con].reverse
         url == SegmentUrl[pdata]
         e == UTILS_StrToIP(TextOf(clients[client].host))
     IN  IF upnp_state = "upnp_found_igd" /\ url # NULL
         THEN /\ control_url' = url
              /\ clients' = [clients EXCEPT ![client].control_url = url]
         ELSE IF upnp_state = "upnp_query_extaddress" /\ SegmentTag[pdata] /\ e[1]
         THEN /\ clients' = [clients EXCEPT ![client].external_address = e[2]]
              /\ UNCHANGED control_url
         ELSE UNCHANGED <<clients, control_url>>
  /\ UNCHANGED <<upnp_state, the_client, conns, counter, crashed, transmissions, started>>

\* upnp_tcp_discon_cb(con)
upnp_tcp_discon_cb(con) ==
  /\ ~crashed
  /\ conns[con].type = "TCP"
  /\ conns[con].st = "CONNECTED"
  /\ last' = Step("upnp_tcp_discon_cb", con, "", <<>>)
  /\ Heap(the_client,
          [clients EXCEPT ![conns[con].reverse].data = NULL,
                          ![conns[con].reverse].con = 0],
          [conns EXCEPT ![con] = NoConn])
  /\ upnp_state' = IF upnp_state = "upnp_found_igd" THEN "upnp_ready" ELSE upnp_state
  /\ UNCHANGED <<control_url, counter, crashed, transmissions, started>>

\* upnp_tcp_recon_cb(con, errType): the connection failed; the callback is empty
upnp_tcp_recon_cb(con) ==
  /\ ~crashed
  /\ conns[con].type = "TCP"
  /\ conns[con].st \in {"CONNECTING", "CONNECTED"}
  /\ last' = Step("upnp_tcp_recon_cb", con, "", <<>>)
  /\ Heap(the_client, clients,
          [conns EXCEPT ![con].st = "IDLE", ![con].pending = 0])
  /\ UNCHANGED <<upnp_state, control_url, counter, crashed, transmissions, started>>

(***************************************************************************)
(* The specification.                                                      *)
(***************************************************************************)
Next ==
  \/ \E alloc \in ScanAllocs : cmdUPnPScan(alloc)
  \/ \E parsed \in BOOLEAN, ip \in LocalIps, lp \in LocalPorts, rp \in RemotePorts :
        cmdUPnPAddPort(parsed, ip, lp, rp)
  \/ \E parsed \in BOOLEAN, rp \in RemotePorts : cmdUPnPRemovePort(parsed, rp)
  \/ cmdUPnPQueryExternalAddress
  \/ cmdUPnPBegin
  \/ \E con \in ConnIds, d \in SsdpDatagrams : ssdp_recv_cb(con, d)
  \/ \E con \in ConnIds : ssdp_sent_cb(con)
  \/ \E con \in ConnIds, a \in DnsAnswers : upnp_dns_found(con, a)
  \/ \E con \in ConnIds : upnp_tcp_connect_cb(con)
  \/ \E con \in ConnIds : upnp_tcp_sent_cb(con)
  \/ \E con \in ConnIds, d \in TcpSegments : upnp_tcp_recv_cb(con, d)
  \/ \E con \in ConnIds : upnp_tcp_discon_cb(con)
  \/ \E con \in ConnIds : upnp_tcp_recon_cb(con)

Spec == Init /\ [][Next]_vars

(***************************************************************************)
(* Properties.  last' names the step that is being taken, the unprimed     *)
(* variables are the state it finds.                                       *)
(***************************************************************************)
\* the program's own variables
program == <<upnp_state, the_client, clients, conns, control_url, counter, crashed>>

SoapCommands == {"cmdUPnPAddPort", "cmdUPnPRemovePort", "cmdUPnPQueryExternalAddress"}

\* an espconn that can still call back
Active(cns, c) == cns[c].st \notin {"FREE", "IDLE"}

\* C1: once cmdUPnPAddPort or cmdUPnPRemovePort has been accepted (upnp_state is
\* upnp_adding_port or upnp_removing_port), the disconnect of the connection
\* that operation opened (the_client's con) brings upnp_state back to
\* upnp_ready.
C1_DisconnectReturnsToReady ==
  [][(/\ last'.op = "upnp_tcp_discon_cb"
      /\ upnp_state \in {"upnp_adding_port", "upnp_removing_port"}
      /\ the_client # 0
      /\ clients[the_client].con = last'.con)
     => upnp_state' = "upnp_ready"]_vars

\* C2: a cmdUPnPAddPort, cmdUPnPRemovePort or cmdUPnPQueryExternalAddress that
\* changes a client (a request buffer, a connection handle) or a connection
\* found upnp_state = upnp_ready.
C2_OperationsStartOnlyInReady ==
  [][(last'.op \in SoapCommands /\ (clients' # clients \/ conns' # conns))
     => upnp_state = "upnp_ready"]_vars

\* C2 happens: cmdUPnPAddPort found upnp_ready and left a connecting espconn
\* and a request buffer
C2_Witness ==
  /\ last.op = "cmdUPnPAddPort"
  /\ last.from = "upnp_ready"
  /\ last.con # 0
  /\ conns[last.con].st = "CONNECTING"
  /\ clients[the_client].data # NULL

\* C3 as stated: a cmdUPnPAddPort, cmdUPnPRemovePort or
\* cmdUPnPQueryExternalAddress (with its arguments) that finds upnp_state other
\* than upnp_ready answers -1 and changes nothing.
C3_RejectedOutsideReady ==
  [][(/\ last'.op \in SoapCommands
      /\ last'.arg # "malformed"
      /\ upnp_state # "upnp_ready")
     => (last'.resp = <<U32MinusOne>> /\ UNCHANGED program)]_vars

\* C3 amended: cmdUPnPAddPort and cmdUPnPRemovePort (with their arguments)
\* outside upnp_ready, and cmdUPnPQueryExternalAddress outside upnp_ready and
\* upnp_query_extaddress, answer -1 and change nothing; in
\* upnp_query_extaddress cmdUPnPQueryExternalAddress is the poll: it changes no
\* client and no connection and leaves upnp_state or moves it to upnp_ready.
C3_RejectedOutsideReadyOrPoll ==
  [][/\ (\/ /\ last'.op \in {"cmdUPnPAddPort", "cmdUPnPRemovePort"}
            /\ last'.arg # "malformed"
            /\ upnp_state # "upnp_ready"
         \/ /\ last'.op = "cmdUPnPQueryExternalAddress"
            /\ upnp_state \notin {"upnp_ready", "upnp_query_extaddress"})
        => (last'.resp = <<U32MinusOne>> /\ UNCHANGED program)
     /\ (last'.op = "cmdUPnPQueryExternalAddress" /\ upnp_state = "upnp_query_extaddress")
        => /\ UNCHANGED <<the_client, clients, conns, control_url, counter, crashed>>
           /\ upnp_state' \in {"upnp_query_extaddress", "upnp_ready"}]_vars

\* C3 happens: cmdUPnPRemovePort was answered -1 in upnp_adding_port while the
\* connection of the add was still there
C3_Witness ==
  /\ last.op = "cmdUPnPRemovePort"
  /\ last.arg # "malformed"
  /\ last.from = "upnp_adding_port"
  /\ last.resp = <<U32MinusOne>>
  /\ upnp_state = "upnp_adding_port"
  /\ \E c \in ConnIds : Active(conns, c) /\ conns[c].reverse = the_client

\* C4: for a session whose description gave a control URL,
\* cmdUPnPQueryExternalAddress in upnp_ready starts the query (a new espconn),
\* moves to upnp_query_extaddress and answers 0; in upnp_query_extaddress it
\* answers the external address and moves to upnp_ready if the address is set,
\* and answers 0 and stays otherwise.
C4_QueryStartsThenPolls ==
  [][(/\ last'.op = "cmdUPnPQueryExternalAddress"
      /\ the_client # 0
      /\ clients[the_client].control_url # NULL)
     => /\ upnp_state = "upnp_ready"
           => /\ upnp_state' = "upnp_query_extaddress"
              /\ last'.resp = <<U32Zero>>
              /\ last'.con # 0
        /\ upnp_state = "upnp_query_extaddress"
           => IF clients[the_client].external_address # U32Zero
              THEN /\ last'.resp = <<clients[the_client].external_address>>
                   /\ upnp_state' = "upnp_ready"
              ELSE /\ last'.resp = <<U32Zero>>
                   /\ upnp_state' = "upnp_query_extaddress"]_vars

\* the address written after the open tag of a reply
ReplyAddress(pdata) ==
  LET i == Least({k \in 0..(Len(pdata) - 1) :
                    StrNCaseCmpEq(pdata, k, "<NewExternalIPAddress>")})
  IN  UTILS_StrToIP(From(pdata, i + 22))[2]

\* C5: a segment with <NewExternalIPAddress>A received in
\* upnp_query_extaddress sets the client's external_address to A.
C5_ExternalAddressFromReply ==
  [][(/\ last'.op = "upnp_tcp_recv_cb"
      /\ upnp_state = "upnp_query_extaddress"
      /\ SegmentTag[last'.arg])
     => clients'[conns[last'.con].reverse].external_address
          = ReplyAddress(last'.arg)]_vars

\* C6: when cmdUPnPQueryExternalAddress started the query from upnp_ready
\* (answer 0, a new espconn) and is called again before anything else happens,
\* the second call answers 0 too, opens no connection and builds no request.
C6_SecondQueryWaits ==
  [][(/\ last.op = "cmdUPnPQueryExternalAddress"
      /\ last.from = "upnp_ready"
      /\ last.resp = <<U32Zero>>
      /\ last.con # 0
      /\ last'.op = "cmdUPnPQueryExternalAddress")
     => /\ last'.resp = <<U32Zero>>
        /\ last'.con = 0
        /\ UNCHANGED program]_vars

Busy == {"upnp_multicasted", "upnp_found_igd", "upnp_adding_port",
         "upnp_removing_port", "upnp_query_extaddress"}

\* C7 as stated: a cmdUPnPScan that finds upnp_multicasted, upnp_found_igd,
\* upnp_adding_port, upnp_removing_port or upnp_query_extaddress changes
\* neither the state nor the session nor the connections.
C7_ScanRejectedWhenBusy ==
  [][(last'.op = "cmdUPnPScan" /\ upnp_state \in Busy)
     => UNCHANGED <<upnp_state, the_client, clients, conns>>]_vars

\* C7 amended: a cmdUPnPScan that finds any state but upnp_ready is accepted
\* and answers 0.  When its allocations succeed it leaves the connections that
\* can still call back as they are, makes a zeroed UPnPClient the_client, gives
\* it a new UDP espconn with one datagram sent, and moves to upnp_multicasted;
\* when an allocation fails it moves to upnp_none and leaves the session and
\* the connections as they are.
C7_ScanRestartsUnlessReady ==
  [][(last'.op = "cmdUPnPScan" /\ upnp_state # "upnp_ready")
     => /\ last'.resp = <<U32Zero>>
        /\ IF last'.arg = "ok"
           THEN /\ upnp_state' = "upnp_multicasted"
                /\ last'.con # 0
                /\ ~Active(conns, last'.con)
                /\ conns'[last'.con].type = "UDP"
                /\ conns'[last'.con].st = "OPEN"
                /\ conns'[last'.con].pending = 1
                /\ conns'[last'.con].reverse = the_client'
                /\ the_client' # 0
                /\ clients'[the_client'] = [ZeroClient EXCEPT !.con = last'.con]
                /\ \A c \in ConnIds : Active(conns, c) => conns'[c] = conns[c]
           ELSE /\ upnp_state' = "upnp_none"
                /\ UNCHANGED <<the_client, clients, conns>>]_vars

\* C7 happens: cmdUPnPScan found upnp_multicasted and started a discovery next
\* to the one under way, whose espconn is still open
C7_Witness ==
  /\ last.op = "cmdUPnPScan"
  /\ last.from = "upnp_multicasted"
  /\ upnp_state = "upnp_multicasted"
  /\ conns[last.con].reverse = the_client
  /\ \E c \in ConnIds :
       conns[c].type = "UDP" /\ conns[c].st = "OPEN" /\ conns[c].reverse # the_client

\* the address the gateway of a session with this host is reached at
GatewayAddress(host) ==
  IF UTILS_StrToIP(host)[1] THEN UTILS_StrToIP(host)[2] ELSE DnsAddress

\* C8: a cmdUPnPScan that finds upnp_ready (with a session that holds the
\* gateway's host) answers the gateway's address and changes nothing; one that
\* finds any other state answers 0.
C8_ScanAnswersGatewayWhenReady ==
  [][last'.op = "cmdUPnPScan"
     => IF upnp_state = "upnp_ready"
        THEN (the_client # 0 /\ clients[the_client].host # NULL)
             => /\ last'.resp = <<GatewayAddress(TextOf(clients[the_client].host))>>
                /\ UNCHANGED program
        ELSE last'.resp = <<U32Zero>>]_vars

\* C9 as stated: no more than 4 datagrams are sent within one scan.
C9_AtMostFourTransmissions == transmissions <= 4

\* C9 amended: no more than 1 + counter_max = 5 datagrams are sent within one
\* scan: the first by cmdUPnPScan, counter_max more by ssdp_sent_cb.
C9_AtMostFiveTransmissions == transmissions <= counter_max + 1

\* C9 happens: all five datagrams of a scan were sent and a further send
\* completion has been handled
C9_Witness ==
  /\ transmissions = counter_max + 1
  /\ last.op = "ssdp_sent_cb"
  /\ last.from = "upnp_multicasted"
  /\ conns[last.con].pending = 0

\* a datagram holds a LOCATION header line
ContainsLocation(pusrdata) ==
  \E i \in 0..(Len(pusrdata) - 1) : StrNCmpEq(pusrdata, i, "\r\nLOCATION:")

\* C10: in upnp_multicasted a datagram with a LOCATION header moves to
\* upnp_found_igd, deletes the UDP espconn it came in on and gives that
\* espconn's client a new TCP espconn that is connecting or resolving, with the
\* GET request as its buffer; a datagram without one changes nothing.
C10_LocationStartsFetch ==
  [][(last'.op = "ssdp_recv_cb" /\ upnp_state = "upnp_multicasted")
     => IF ContainsLocation(last'.arg)
        THEN LET client == conns[last'.con].reverse
                 n == clients'[client].con
             IN  /\ upnp_state' = "upnp_found_igd"
                 /\ conns'[last'.con].type # "UDP"
                 /\ n # 0
                 /\ conns'[n].type = "TCP"
                 /\ conns'[n].reverse = client
                 /\ conns'[n].st \in {"CONNECTING", "RESOLVING"}
                 /\ ~Active(conns, n) \/ n = last'.con
                 /\ clients'[client].data # NULL
                 /\ StrNCmpEq(Deref(clients'[client].data), 0, "GET ")
        ELSE UNCHANGED program]_vars

\* C10 happens: a datagram with LOCATION was handled in upnp_multicasted
C10_Witness ==
  /\ last.op = "ssdp_recv_cb"
  /\ last.from = "upnp_multicasted"
  /\ ContainsLocation(last.arg)
  /\ upnp_state = "upnp_found_igd"
  /\ \E c \in ConnIds : conns[c].type = "TCP" /\ conns[c].st = "CONNECTING"

\* the description fetch of the current session is under way: the_client's
\* espconn is a TCP connection that can still call back
FetchUnderWay ==
  /\ upnp_state = "upnp_found_igd"
  /\ the_client # 0
  /\ clients[the_client].con # 0
  /\ conns[clients[the_client].con].type = "TCP"
  /\ Active(conns, clients[the_client].con)

\* C11: while the description fetch of the current session is under way in
\* upnp_found_igd, the disconnect of its connection moves upnp_state to
\* upnp_ready, with or without a control URL, and nothing else moves
\* upnp_state to upnp_ready.
C11_OnlyFetchDisconnectMakesReady ==
  [][FetchUnderWay
     => /\ (/\ last'.op = "upnp_tcp_discon_cb"
            /\ last'.con = clients[the_client].con)
           => upnp_state' = "upnp_ready"
        /\ upnp_state' = "upnp_ready"
           => /\ last'.op = "upnp_tcp_discon_cb"
              /\ last'.con = clients[the_client].con]_vars

\* C12: a cmdUPnPAddPort, cmdUPnPRemovePort or cmdUPnPQueryExternalAddress
\* (with its arguments) for a session that holds no control URL answers -1 or
\* 0, builds no request, opens no connection and leaves the program running.
C12_NoRequestWithoutControlUrl ==
  [][(/\ last'.op \in SoapCommands
      /\ last'.arg # "malformed"
      /\ the_client # 0
      /\ clients[the_client].control_url = NULL)
     => /\ last'.resp \in {<<U32MinusOne>>, <<U32Zero>>}
        /\ UNCHANGED <<clients, conns, crashed>>]_vars

\* C13: cmdUPnPBegin moves to upnp_none and drops the session (the_client is
\* NULL).  From then on, until a cmdUPnPScan, every step leaves upnp_state at
\* upnp_none and the_client NULL - the callbacks of the connections opened
\* before included - and cmdUPnPAddPort, cmdUPnPRemovePort and
\* cmdUPnPQueryExternalAddress (with their arguments) answer -1 and change no
\* client and no connection.
C13_ResetHoldsUntilScan ==
  [][/\ last'.op = "cmdUPnPBegin"
        => (upnp_state' = "upnp_none" /\ the_client' = 0)
     /\ (the_client = 0 /\ last'.op # "cmdUPnPScan")
        => /\ upnp_state = "upnp_none"
           /\ upnp_state' = "upnp_none"
           /\ the_client' = 0
           /\ (last'.op \in SoapCommands /\ last'.arg # "malformed")
              => /\ last'.resp = <<U32MinusOne>>
                 /\ UNCHANGED <<clients, conns>>]_vars

\* C13 happens: after cmdUPnPBegin a connection opened before it was
\* disconnected
C13_Witness ==
  /\ the_client = 0
  /\ upnp_state = "upnp_none"
  /\ last.op = "upnp_tcp_discon_cb"
  /\ last.from = "upnp_none"

(***************************************************************************)
(* upnp_analyze_location on its own: the LOCATION values of a datagram,    *)
(* analyzed for the client of a scan that has just been started.           *)
(***************************************************************************)
\* LOCATION values http://host[:port][/path]
LocHosts == {"192.168.1.1", "gateway", "10.0.0.138", "igd.lan", "fritz.box"}
LocPorts == {"", ":80", ":8000", ":5431", ":49152"}
LocPaths == {"", "/", "/desc.xml", "/rootDesc.xml", "/upnp/igd.xml"}
Locations == {"http://" \o h \o p \o q : h \in LocHosts, p \in LocPorts, q \in LocPaths}

\* the state cmdUPnPScan leaves: client 1, its UDP espconn 1, one datagram sent
InitLocation ==
  /\ upnp_state = "upnp_multicasted"
  /\ the_client = 1
  /\ clients = [i \in ClientIds |-> IF i = 1 THEN [ZeroClient EXCEPT !.con = 1]
                                    ELSE ZeroClient]
  /\ conns = [c \in ConnIds |->
                IF c = 1
                THEN [NewConn("UDP", 1, "OPEN", IP4(239, 255, 255, 250), 1900)
                        EXCEPT !.pending = 1]
                ELSE NoConn]
  /\ control_url = NULL
  /\ counter = 0
  /\ crashed = FALSE
  /\ transmissions = 1
  /\ started = 1
  /\ last = [op |-> "cmdUPnPScan", con |-> 1, from |-> "upnp_none", arg |-> "ok",
             resp |-> <<U32Zero>>]

\* upnp_analyze_location(client, orig_loc, len) for client 1
AnalyzeLocation(orig_loc) ==
  /\ LET a == upnp_analyze_location(orig_loc)
     IN  clients' = [clients EXCEPT ![1].location = Ptr(a.location),
                                    ![1].control_port = a.control_port,
                                    ![1].path = Ptr(a.path),
                                    ![1].host = Ptr(a.host)]
  /\ last' = Step("upnp_analyze_location", 1, orig_loc, <<>>)
  /\ UNCHANGED <<upnp_state, the_client, conns, control_url, counter, crashed,
                 transmissions, started>>

NextLocation == \E orig_loc \in Locations : AnalyzeLocation(orig_loc)

SpecLocation == InitLocation /\ [][NextLocation]_vars

\* where the host of http://host[:port][/path] ends: at the first ':' or '/'
\* after the scheme, or at the end of the text
HostEnd(loc) == Least({i \in 7..Len(loc) : CharAt(loc, i) \in {":", "/", ""}})

\* C14: upnp_analyze_location of http://host[:port][/path] sets host to the
\* text between the scheme and the first ':' or '/', control_port to the
\* number after the ':' or to 80 when there is none, and path to the text
\* from the first '/' after the host, or to the empty text when there is none.
C14_AnalyzerSplitsLocation ==
  last.op = "upnp_analyze_location"
  => LET loc == last.arg
         e == HostEnd(loc)
         slashes == {i \in e..(Len(loc) - 1) : CharAt(loc, i) = "/"}
     IN  /\ clients[1].host = Ptr(Slice(loc, 7, e))
         /\ clients[1].control_port =
              IF CharAt(loc, e) = ":" THEN Atoi(From(loc, e + 1)) ELSE 80
         /\ clients[1].path =
              Ptr(IF slashes = {} THEN "" ELSE From(loc, Least(slashes)))

(***************************************************************************)
(* upnp_tcp_recv_cb in upnp_found_igd on its own: description bodies of    *)
(* several <service> blocks, each received as one segment on the           *)
(* connection of the description fetch.                                    *)
(***************************************************************************)
\* <service> blocks of a description in one segment
MaxBlocks == 3

\* a block names the target service or another one, and holds its control URL
\* after the service id, before it, or not at all; the target's control URL
\* is /ctl, that of the other service /ip
ServiceBlock(target, form) ==
  LET id == IF target
            THEN "<serviceId>urn:upnp-org:serviceId:WANPPPConn1</serviceId>"
            ELSE "<serviceId>urn:upnp-org:serviceId:WANIPConn1</serviceId>"
      url == IF target THEN "<controlURL>/ctl</controlURL>"
             ELSE "<controlURL>/ip</controlURL>"
  IN  "<service>"
      \o (CASE form = "id_url" -> id \o url
            [] form = "url_id" -> url \o id
            [] OTHER -> id)
      \o "</service>"

ServiceBlocks ==
  {ServiceBlock(t, f) : t \in BOOLEAN, f \in {"id_url", "url_id", "id"}}

RECURSIVE BodiesOf(_)
BodiesOf(n) ==
  IF n = 0 THEN {""}
  ELSE {b \o rest : b \in ServiceBlocks, rest \in BodiesOf(n - 1)}

DescBodies == UNION {BodiesOf(n) : n \in 1..MaxBlocks}

\* the state in which the description arrives: cmdUPnPScan, ssdp_recv_cb with
\* SsdpNumeric and upnp_tcp_connect_cb have run for client 1
InitDescription ==
  /\ upnp_state = "upnp_found_igd"
  /\ the_client = 1
  /\ LET a == Deref(SsdpLocation[SsdpNumeric])
         analyzed == [i \in ClientIds |->
                        IF i = 1
                        THEN [ZeroClient EXCEPT !.location = Ptr(a.location),
                                                !.control_port = a.control_port,
                                                !.path = Ptr(a.path),
                                                !.host = Ptr(a.host)]
                        ELSE ZeroClient]
         r == upnp_query_igd(1, "upnp_found_igd", analyzed,
                             [c \in ConnIds |-> NoConn])
     IN  /\ clients = [r.clients EXCEPT ![1].data_sent = r.clients[1].data_len]
         /\ conns = [r.conns EXCEPT ![r.con].st = "CONNECTED",
                                    ![r.con].pending = 1]
  /\ control_url = NULL
  /\ counter = 0
  /\ crashed = FALSE
  /\ transmissions = 1
  /\ started = 1
  /\ last = [op |-> "upnp_tcp_connect_cb", con |-> 1, from |-> "upnp_found_igd",
             arg |-> "", resp |-> <<>>]

\* upnp_tcp_recv_cb(con, pdata, len) in upnp_found_igd, for the first segment
\* of the connection
ReceiveDescription(con, pdata) ==
  /\ upnp_state = "upnp_found_igd"
  /\ conns[con].type = "TCP"
  /\ conns[con].st = "CONNECTED"
  /\ last.op # "upnp_tcp_recv_cb"
  /\ last' = Step("upnp_tcp_recv_cb", con, pdata, <<>>)
  /\ LET client == conns[con].reverse
         url == ControlUrlOf(pdata)
     IN  IF url # NULL
         THEN /\ control_url' = url
              /\ clients' = [clients EXCEPT ![client].control_url = url]
         ELSE UNCHANGED <<clients, control_url>>
  /\ UNCHANGED <<upnp_state, the_client, conns, counter, crashed, transmissions,
                 started>>

NextDescription ==
  \E con \in ConnIds, pdata \in DescBodies : ReceiveDescription(con, pdata)

SpecDescription == InitDescription /\ [][NextDescription]_vars

\* a text holds a literal
Contains(text, lit) == \E i \in 0..(Len(text) - 1) : StrNCmpEq(text, i, lit)

\* C15: after a description body received in one segment the client's control
\* URL is the control URL of a block that names the target service (/ctl) when
\* there is such a block with a control URL, and never the control URL of
\* another block (/ip).
C15_ControlUrlOfTargetBlock ==
  last.op = "upnp_tcp_recv_cb"
  => LET url == clients[conns[last.con].reverse].control_url
     IN  /\ url # Ptr("/ip")
         /\ Contains(last.arg, "<controlURL>/ctl</controlURL>") => url = Ptr("/ctl")

\* the body of a request: the text after the first empty line, NULL if the
\* request has no empty line
RequestBody(query) ==
  LET ends == {i \in 0..(Len(query) - 1) : StrNCmpEq(query, i, "\r\n\r\n")}
  IN  IF ends = {} THEN NULL ELSE Ptr(From(query, Least(ends) + 4))

\* the value of the Content-Length header of a request
ContentLength(query) ==
  LET i == Least({k \in 0..(Len(query) - 1) : StrNCmpEq(query, k, "Content-Length")})
      colon == Least({k \in i..(Len(query) - 1) : CharAt(query, k) = ":"})
  IN  Atoi(From(query, colon + 1))

\* C16: the request built by an accepted cmdUPnPAddPort, cmdUPnPRemovePort or
\* cmdUPnPQueryExternalAddress has, after its header block, the XML body, and
\* its Content-Length is the length of that body.
C16_ContentLengthIsBodyLength ==
  [][(last'.op \in SoapCommands /\ last'.con # 0 /\ ~crashed')
     => LET query == Deref(clients'[the_client].data)
            body == RequestBody(query)
        IN  /\ body # NULL
            /\ StrNCmpEq(Deref(body), 0, "<?xml")
            /\ ContentLength(query) = Len(Deref(body))]_vars

\* C17: the request built by an accepted cmdUPnPAddPort(ip, local_port,
\* remote_port) holds NewExternalPort = remote_port, NewInternalPort =
\* local_port and NewInternalClient = the four octets of ip in the order of
\* the argument.
C17_AddPortParameters ==
  [][(last'.op = "cmdUPnPAddPort" /\ last'.con # 0 /\ ~crashed')
     => LET c == clients'[the_client]
            query == Deref(c.data)
        IN  /\ Contains(query, "<NewExternalPort>" \o Itoa(c.remote_port)
                                 \o "</NewExternalPort>")
            /\ Contains(query, "<NewInternalPort>" \o Itoa(c.port)
                                 \o "</NewInternalPort>")
            /\ Contains(query, "<NewInternalClient>"
                                 \o Itoa(c.ip[1]) \o "." \o Itoa(c.ip[2]) \o "."
                                 \o Itoa(c.ip[3]) \o "." \o Itoa(c.ip[4])
                                 \o "</NewInternalClient>")]_vars

\* the espconns that can still call back
LiveConns(cns) == {c \in ConnIds : Active(cns, c)}

\* C18: at most one espconn of the module can call back at any time, and a
\* cmdUPnPScan, cmdUPnPAddPort, cmdUPnPRemovePort or
\* cmdUPnPQueryExternalAddress that opens a connection finds no session or a
\* session whose con is NULL.
C18_OneConnection ==
  [][/\ Cardinality(LiveConns(conns')) <= 1
     /\ (last'.op \in SoapCommands \cup {"cmdUPnPScan"} /\ last'.con # 0)
        => (the_client = 0 \/ clients[the_client].con = 0)]_vars

\* C19: a command that builds a request finds the session's data pointer NULL
\* (no buffer is lost by overwriting the pointer), and a data pointer that is
\* set becomes NULL only in upnp_tcp_sent_cb or upnp_tcp_discon_cb for a
\* connection of that client (no buffer is dropped without os_free).
C19_BufferFreedOnce ==
  [][/\ (last'.op \in SoapCommands /\ last'.con # 0)
        => clients[the_client].data = NULL
     /\ \A c \in ClientIds :
          (clients[c].data # NULL /\ clients'[c].data = NULL)
          => /\ last'.op \in {"upnp_tcp_sent_cb", "upnp_tcp_discon_cb"}
             /\ conns[last'.con].reverse = c]_vars

\* the session has reached upnp_ready: since the last cmdUPnPScan or
\* cmdUPnPBegin the state has been upnp_ready, and it is upnp_ready or the
\* state of a command accepted from there
PastReady ==
  upnp_state \in {"upnp_ready", "upnp_adding_port", "upnp_removing_port",
                  "upnp_query_extaddress"}

\* what discovery has found: control_url, and host, control_port and
\* control_url of the session
Discovered ==
  <<control_url,
    IF the_client = 0 THEN <<>>
    ELSE <<clients[the_client].host, clients[the_client].control_port,
           clients[the_client].control_url>>>>

\* C20: once the session has reached upnp_ready, it stays so until the next
\* cmdUPnPScan or cmdUPnPBegin, and until then no command and no callback
\* changes host, control_port or control_url.
C20_DiscoveryFixedOnceReady ==
  [][(PastReady /\ last'.op \notin {"cmdUPnPScan", "cmdUPnPBegin"})
     => PastReady' /\ Discovered' = Discovered]_vars

\* a description with a control URL other than the session's arrives on a
\* connection of the session after the session has reached upnp_ready
C20_Witness ==
  /\ last.op = "upnp_tcp_recv_cb"
  /\ last.from \in {"upnp_ready", "upnp_adding_port"}
  /\ the_client # 0
  /\ conns[last.con].reverse = the_client
  /\ SegmentUrl[last.arg] # NULL
  /\ SegmentUrl[last.arg] # clients[the_client].control_url

(***************************************************************************)
(* The request buffer on its way to the transport: upnp_tcp_connect_cb and *)
(* upnp_tcp_sent_cb for description requests of many lengths.              *)
(***************************************************************************)
\* the longest path of a LOCATION, less its leading '/', and the step between
\* the path lengths tried
MaxPad == 1400
PadStep == 25

\* a path segment of n characters
RECURSIVE Pad(_)
Pad(n) ==
  IF n = 0 THEN ""
  ELSE IF n % 2 = 0 THEN LET h == Pad(n \div 2) IN h \o h
  ELSE "p" \o Pad(n - 1)

\* LOCATION values with a numeric host, a port and a path of 1..MaxPad+1
\* characters
ChunkPorts == {":80", ":800"}
PadLengths == {n \in 0..MaxPad : n % PadStep = 0}
ChunkLocations ==
  {"http://192.168.1.1" \o p \o "/" \o Pad(n) : p \in ChunkPorts, n \in PadLengths}

\* the state in which the connection for the description is being opened:
\* cmdUPnPScan and ssdp_recv_cb with a LOCATION of ChunkLocations have run for
\* client 1
InitChunks ==
  /\ upnp_state = "upnp_found_igd"
  /\ the_client = 1
  /\ \E loc \in ChunkLocations :
       LET a == upnp_analyze_location(loc)
           analyzed == [i \in ClientIds |->
                          IF i = 1
                          THEN [ZeroClient EXCEPT !.location = Ptr(a.location),
                                                  !.control_port = a.control_port,
                                                  !.path = Ptr(a.path),
                                                  !.host = Ptr(a.host)]
                          ELSE ZeroClient]
           r == upnp_query_igd(1, "upnp_found_igd", analyzed,
                               [c \in ConnIds |-> NoConn])
       IN  /\ clients = r.clients
           /\ conns = r.conns
  /\ control_url = NULL
  /\ counter = 0
  /\ crashed = FALSE
  /\ transmissions = 1
  /\ started = 1
  /\ last = [op |-> "ssdp_recv_cb", con |-> 1, from |-> "upnp_multicasted",
             arg |-> "", resp |-> <<>>]

NextChunks ==
  \E con \in ConnIds :
    \/ upnp_tcp_connect_cb(con)
    \/ upnp_tcp_sent_cb(con)
    \/ upnp_tcp_discon_cb(con)

SpecChunks == InitChunks /\ [][NextChunks]_vars

\* C21: the chunk upnp_tcp_connect_cb hands to espconn_send starts at byte 0,
\* the chunk upnp_tcp_sent_cb hands over starts at data_sent, where the chunks
\* before it end; each chunk has 1..1400 bytes and ends within the buffer;
\* upnp_tcp_sent_cb frees the buffer only when all data_len bytes have been
\* handed over and no send-completion is outstanding.
C21_ChunksCoverBuffer ==
  [][LET cl == conns[last'.con].reverse
         c == clients[cl]
     IN  /\ last'.op = "upnp_tcp_connect_cb"
            => /\ clients'[cl].data_sent \in 1..ChunkMax
               /\ clients'[cl].data_sent <= c.data_len
               /\ clients'[cl].data_sent < c.data_len
                  => clients'[cl].data_sent = ChunkMax
         /\ (last'.op = "upnp_tcp_sent_cb" /\ c.data_sent # c.data_len)
            => /\ clients'[cl].data_sent - c.data_sent \in 1..ChunkMax
               /\ clients'[cl].data_sent <= c.data_len
               /\ clients'[cl].data = c.data
         /\ (last'.op = "upnp_tcp_sent_cb" /\ c.data # NULL
             /\ clients'[cl].data = NULL)
            => /\ c.data_sent = c.data_len
               /\ conns'[last'.con].pending = 0]_vars

\* the state has advanced past upnp_multicasted
PastDiscovering ==
  upnp_state \in {"upnp_found_igd", "upnp_ready", "upnp_adding_port",
                  "upnp_removing_port", "upnp_query_extaddress"}

\* C22: once the state has advanced past upnp_multicasted, ssdp_recv_cb and
\* ssdp_sent_cb change neither the state nor the session nor the control URL,
\* send no datagram and open no connection; ssdp_sent_cb only takes its
\* send-completion off the espconn.
C22_LateDiscoveryEventsIgnored ==
  [][(PastDiscovering /\ last'.op \in {"ssdp_recv_cb", "ssdp_sent_cb"})
     => /\ UNCHANGED <<upnp_state, the_client, clients, control_url, counter,
                       transmissions, crashed>>
        /\ \A c \in ConnIds :
             conns'[c] = IF last'.op = "ssdp_sent_cb" /\ c = last'.con
                         THEN [conns[c] EXCEPT !.pending = @ - 1]
                         ELSE conns[c]]_vars

\* a datagram with LOCATION arrived after the state had advanced past
\* upnp_multicasted
C22_Witness ==
  /\ last.op = "ssdp_recv_cb"
  /\ last.from \in {"upnp_found_igd", "upnp_ready"}
  /\ SsdpLocation[last.arg] # NULL

(***************************************************************************)
(* A reply that arrives in several segments: upnp_tcp_recv_cb is called    *)
(* once per segment, with the pieces of the reply in order.                *)
(***************************************************************************)
\* the reply the gateway sends in a state
ReplyOf(st) == IF st = "upnp_found_igd" THEN DescTarget ELSE ExtReply

\* the most segments a reply arrives in
MaxSegments == 3

\* the state in which the reply to the external-address query arrives: the
\* session of InitDescription has become ready with the control URL /ctl,
\* cmdUPnPQueryExternalAddress and upnp_tcp_connect_cb have run
InitExternal ==
  /\ upnp_state = "upnp_query_extaddress"
  /\ the_client = 1
  /\ LET a == Deref(SsdpLocation[SsdpNumeric])
         ready == [i \in ClientIds |->
                     IF i = 1
                     THEN [ZeroClient EXCEPT !.location = Ptr(a.location),
                                             !.control_port = a.control_port,
                                             !.path = Ptr(a.path),
                                             !.host = Ptr(a.host),
                                             !.remote_ip = UTILS_StrToIP(a.host)[2],
                                             !.control_url = Ptr("/ctl")]
                     ELSE ZeroClient]
         r == upnp_query_igd(1, "upnp_query_extaddress", ready,
                             [c \in ConnIds |-> NoConn])
     IN  /\ clients = [r.clients EXCEPT ![1].data_sent = r.clients[1].data_len]
         /\ conns = [r.conns EXCEPT ![r.con].st = "CONNECTED",
                                    ![r.con].pending = 1]
  /\ control_url = Ptr("/ctl")
  /\ counter = 0
  /\ crashed = FALSE
  /\ transmissions = 1
  /\ started = 2
  /\ last = [op |-> "upnp_tcp_connect_cb", con |-> 1,
             from |-> "upnp_query_extaddress", arg |-> "", resp |-> <<>>]

InitSegments == InitDescription \/ InitExternal

\* the part of the reply received before the segment of this step, and the
\* number of segments it arrived in
Received == IF last.op = "upnp_tcp_recv_cb" THEN last.resp[1] \o last.arg ELSE ""
Segments == IF last.op = "upnp_tcp_recv_cb" THEN last.resp[2] + 1 ELSE 0

\* upnp_tcp_recv_cb(con, pdata, len) for the next piece of the reply, which
\* is the rest of it when it is segment MaxSegments; the step records the
\* part of the reply received before it
ReceiveSegment(con, pdata) ==
  /\ conns[con].type = "TCP"
  /\ conns[con].st = "CONNECTED"
  /\ LET all == Received \o pdata
     IN  /\ Len(all) <= Len(ReplyOf(upnp_state))
         /\ all = Slice(ReplyOf(upnp_state), 0, Len(all))
         /\ Segments + 1 = MaxSegments => all = ReplyOf(upnp_state)
  /\ last' = [Step("upnp_tcp_recv_cb", con, pdata, <<>>)
                EXCEPT !.resp = <<Received, Segments>>]
  /\ LET client == conns[con].reverse
         url == ControlUrlOf(pdata)
         e == UTILS_StrToIP(TextOf(clients[client].host))
     IN  IF upnp_state = "upnp_found_igd" /\ url # NULL
         THEN /\ control_url' = url
              /\ clients' = [clients EXCEPT ![client].control_url = url]
         ELSE IF upnp_state = "upnp_query_extaddress" /\ HasExternalTag(pdata) /\ e[1]
         THEN /\ clients' = [clients EXCEPT ![client].external_address = e[2]]
              /\ UNCHANGED control_url
         ELSE UNCHANGED <<clients, control_url>>
  /\ UNCHANGED <<upnp_state, the_client, conns, counter, crashed, transmissions,
                 started>>

\* the transport delivers the next 1 or more bytes of the reply
NextSegments ==
  \E con \in ConnIds, n \in 1..(Len(ReplyOf(upnp_state)) - Len(Received)) :
    ReceiveSegment(con, Slice(ReplyOf(upnp_state), Len(Received), Len(Received) + n))

SpecSegments == InitSegments /\ [][NextSegments]_vars

\* C23: when the whole reply has arrived, in one segment or in several, the
\* client's control URL (in upnp_found_igd) and external address (in
\* upnp_query_extaddress) are the ones upnp_tcp_recv_cb stores when the reply
\* arrives as one segment.
C23_SplitDoesNotMatter ==
  (last.op = "upnp_tcp_recv_cb" /\ Received = ReplyOf(upnp_state))
  => LET c == clients[conns[last.con].reverse]
         e == UTILS_StrToIP(TextOf(c.host))
     IN  IF upnp_state = "upnp_found_igd"
         THEN c.control_url = ControlUrlOf(DescTarget)
         ELSE c.external_address
              = IF HasExternalTag(ExtReply) /\ e[1] THEN e[2] ELSE U32Zero

\* the espconn callbacks
Callbacks ==
  {"ssdp_recv_cb", "ssdp_sent_cb", "upnp_dns_found", "upnp_tcp_connect_cb",
   "upnp_tcp_sent_cb", "upnp_tcp_recv_cb", "upnp_tcp_discon_cb",
   "upnp_tcp_recon_cb"}

\* C24: a callback of an espconn that does not belong to the current session
\* changes neither the state nor the current session; a callback moves the
\* state to upnp_found_igd or upnp_ready only for an espconn of the current
\* session; and in upnp_ready the current session holds a host and the
\* gateway's address.
C24_AbandonedSessionIsInert ==
  [][/\ (last'.op \in Callbacks /\ conns[last'.con].reverse # the_client)
        => /\ upnp_state' = upnp_state
           /\ the_client' = the_client
           /\ the_client # 0 => clients'[the_client] = clients[the_client]
     /\ upnp_state' = "upnp_ready"
        => /\ the_client' # 0
           /\ clients'[the_client'].host # NULL
           /\ clients'[the_client'].remote_ip # U32Zero]_vars

\* what cmdUPnPQueryExternalAddress answers when it is called in
\* upnp_query_extaddress
PollAnswer ==
  IF the_client = 0 THEN U32Zero ELSE clients[the_client].external_address

\* C25: when cmdUPnPQueryExternalAddress has started a query, a poll answers 0
\* (no address of an earlier query is left to answer), and the answer of a
\* poll becomes an address only when upnp_tcp_recv_cb finds the tag in a
\* segment received in upnp_query_extaddress on the connection of that query.
C25_PollAnswersLatestQuery ==
  [][/\ (last'.op = "cmdUPnPQueryExternalAddress" /\ last'.con # 0 /\ ~crashed')
        => PollAnswer' = U32Zero
     /\ (PollAnswer' # PollAnswer /\ PollAnswer' # U32Zero)
        => /\ upnp_state = "upnp_query_extaddress"
           /\ last'.op = "upnp_tcp_recv_cb"
           /\ last'.con = clients[the_client].con
           /\ SegmentTag[last'.arg]]_vars

\* C26: in upnp_ready with the control URL of the session extracted,
\* cmdUPnPAddPort, cmdUPnPRemovePort and cmdUPnPQueryExternalAddress do not
\* answer -1 and cmdUPnPScan does not answer 0: the session's remote_ip is set
\* whether its host is a numeric address or a name that was resolved.
C26_ReadySessionIsAccepted ==
  [][(/\ upnp_state = "upnp_ready"
      /\ the_client # 0
      /\ clients[the_client].control_url # NULL)
     => /\ clients[the_client].remote_ip # U32Zero
        /\ (last'.op \in SoapCommands /\ last'.arg # "malformed")
           => last'.resp # <<U32MinusOne>>
        /\ last'.op = "cmdUPnPScan" => last'.resp # <<U32Zero>>]_vars

====
